---- MODULE Spec2Model ----
(***************************************************************************)
(* Model of wav-files-filter (src/src/main.rs): a sequential command-line  *)
(* run that walks an input tree, computes the duration of every *.wav      *)
(* file and copies the files whose duration lies in [min_length,           *)
(* max_length] to the same relative path under an output root.             *)
(***************************************************************************)
EXTENDS Integers, Sequences, FiniteSets, TLC

(***************************************************************************)
(* Part 1.  IEEE-754 binary64 arithmetic of get_duration_ms.               *)
(*                                                                         *)
(* A finite positive double is [m |-> 53 bits, most significant first,     *)
(* e |-> exponent of the LAST bit]: its value is m * 2^e.  Bits are kept   *)
(* as sequences because a 53-bit significand does not fit a TLC integer.   *)
(***************************************************************************)
F64Bits == 53
RadixBits == 10
Radix == 1024
DivDigits == 8
IntBits == 31
MulLimbs == 6

RECURSIVE Pow2(_)
Pow2(n) == IF n = 0 THEN 1 ELSE 2 * Pow2(n - 1)

\* Bit i (weight 2^i) of the non-negative integer n.
BitOf(n, i) == (n \div Pow2(i)) % 2

\* Value of a bit sequence (most significant first) as an integer.
RECURSIVE BitsToInt(_)
BitsToInt(b) ==
    IF Len(b) = 0 THEN 0
    ELSE 2 * BitsToInt(SubSeq(b, 1, Len(b) - 1)) + b[Len(b)]

\* Adds one to a bit sequence (most significant first).  A carry out of
\* the top bit gives one more bit.
IncBits(b) ==
    LET zeros == {j \in 1..Len(b) : b[j] = 0}
    IN  IF zeros = {}
        THEN <<1>> \o [j \in 1..Len(b) |-> 0]
        ELSE LET z == CHOOSE j \in zeros : \A k \in zeros : k <= j
             IN  [j \in 1..Len(b) |-> IF j < z THEN b[j] ELSE IF j = z THEN 1 ELSE 0]

\* Round to nearest, ties to even: b holds F64Bits significand bits and
\* one guard bit, e is the exponent of the guard bit, sticky says whether
\* anything non-zero lies below the guard bit.
RoundNearestEven(b, e, sticky) ==
    LET m     == SubSeq(b, 1, F64Bits)
        guard == b[F64Bits + 1]
        up    == guard = 1 /\ (sticky \/ m[F64Bits] = 1)
        r     == IF up THEN IncBits(m) ELSE m
    IN  IF Len(r) > F64Bits
        THEN [m |-> SubSeq(r, 1, F64Bits), e |-> e + 2]
        ELSE [m |-> r, e |-> e + 1]

\* Rounds the positive number whose binary digits are the sequence s, the
\* last of them of weight 2^e, and below which lies something non-zero
\* iff sticky, to a double.
F64Round(s, e, sticky) ==
    LET n    == Len(s)
        lead == CHOOSE j \in 1..n : s[j] = 1 /\ \A k \in 1..(j - 1) : s[k] = 0
        g    == lead + F64Bits
        acc  == [k \in 1..(F64Bits + 1) |->
                   IF lead + k - 1 <= n THEN s[lead + k - 1] ELSE 0]
    IN  RoundNearestEven(acc, e + (n - g),
                         sticky \/ \E j \in (g + 1)..n : s[j] = 1)

\* Remainder left after k base-Radix digits of the fraction of num / den.
RECURSIVE DivRem(_, _, _)
DivRem(num, den, k) ==
    IF k = 0 THEN num % den ELSE (DivRem(num, den, k - 1) * Radix) % den

\* The k-th base-Radix digit of the fraction of num / den (k >= 1).
DivDigit(num, den, k) == (DivRem(num, den, k - 1) * Radix) \div den

\* num as f64 / den as f64, correctly rounded, for 0 < num < 2^31 and
\* 0 < den < 2^21: long division to IntBits integer bits and DivDigits
\* fraction digits, then rounding.
F64Div(num, den) ==
    LET n == IntBits + DivDigits * RadixBits
        s == [j \in 1..n |->
                IF j <= IntBits
                THEN BitOf(num \div den, IntBits - j)
                ELSE BitOf(DivDigit(num, den, (j - IntBits - 1) \div RadixBits + 1),
                           RadixBits - 1 - ((j - IntBits - 1) % RadixBits))]
    IN  F64Round(s, 0 - DivDigits * RadixBits, DivRem(num, den, DivDigits) # 0)

\* Limb i (1 = most significant) of the significand m, left-padded with
\* zeros to MulLimbs limbs of RadixBits bits.
Limb(m, i) ==
    LET pad == MulLimbs * RadixBits - F64Bits
    IN  BitsToInt([j \in 1..RadixBits |->
                     IF (i - 1) * RadixBits + j <= pad THEN 0
                     ELSE m[(i - 1) * RadixBits + j - pad]])

\* Carry into limb i when the significand m is multiplied by k.
RECURSIVE MulCarry(_, _, _)
MulCarry(m, k, i) ==
    IF i = MulLimbs THEN 0
    ELSE (Limb(m, i + 1) * k + MulCarry(m, k, i + 1)) \div Radix

\* x * (k as f64), correctly rounded, for a positive double x and an
\* integer 1 <= k < 2^20.
F64MulInt(x, k) ==
    LET top == 2 * RadixBits
        n   == top + MulLimbs * RadixBits
        s   == [j \in 1..n |->
                  IF j <= top
                  THEN BitOf(MulCarry(x.m, k, 0), top - j)
                  ELSE LET i == (j - top - 1) \div RadixBits + 1
                       IN  BitOf((Limb(x.m, i) * k + MulCarry(x.m, k, i)) % Radix,
                                 RadixBits - 1 - ((j - top - 1) % RadixBits))]
    IN  F64Round(s, x.e, FALSE)

\* (x as u64) for a positive double below 2^31: truncation toward zero.
F64ToU64(x) ==
    IF F64Bits + x.e <= 0 THEN 0
    ELSE BitsToInt(SubSeq(x.m, 1, F64Bits + x.e))

\* get_duration_ms on an opened reader with reader.len() = num_samples and
\* reader.spec().sample_rate = sample_rate > 0.  0.0 / r * 1000.0 is 0.0.
duration_ms(num_samples, sample_rate) ==
    LET duration_sec == F64Div(num_samples, sample_rate)
    IN  IF num_samples = 0 THEN 0
        ELSE F64ToU64(F64MulInt(duration_sec, 1000))

(***************************************************************************)
(* Part 2.  Paths and the file system.                                     *)
(*                                                                         *)
(* A file name is a sequence of characters, a path a sequence of file      *)
(* names below the file-system root <<>>.  fs maps every existing path to  *)
(* its node.  mode "rw" is readable and writable, "r-" read-only, "--"     *)
(* neither.                                                                *)
(***************************************************************************)
MaxDepth == 4

BadByte == "<FF>"
NameIn     == <<"i", "n">>
NameOut    == <<"o", "u", "t">>
NameSub    == <<"d">>
NameWav    == <<"a", ".", "w", "a", "v">>
NameUpper  == <<"b", ".", "W", "A", "V">>
NameHidden == <<".", "w", "a", "v">>
NameNoExt  == <<"w", "a", "v">>
NameBadUtf == <<"c", ".", "w", "a", "v", BadByte>>
NameLink   == <<"l", ".", "w", "a", "v">>

None == [some |-> FALSE]
Some(v) == [some |-> TRUE, v |-> v]

Absent == [k |-> "none"]
Dir(mode) == [k |-> "dir", mode |-> mode]
File(c, mode) == [k |-> "file", c |-> c, mode |-> mode]
Link(t) == [k |-> "link", t |-> t]

\* File contents: a container with a parseable header, bytes that are not
\* a container, or no bytes at all.
Wav(rate, samples) == [hdr |-> TRUE, rate |-> rate, samples |-> samples]
Garbage == [hdr |-> FALSE, bytes |-> "garbage"]
Empty == [hdr |-> FALSE, bytes |-> "empty"]
C0 == Wav(44100, 0)
C500 == Wav(44100, 22050)
C1000 == Wav(8000, 8008)
WavContents == {C0, C500, C1000}

Node(f, p) ==
    IF p = <<>> THEN Dir("rw") ELSE IF p \in DOMAIN f THEN f[p] ELSE Absent

Parent(p) == SubSeq(p, 1, Len(p) - 1)

IsPrefix(p, q) == Len(p) <= Len(q) /\ SubSeq(q, 1, Len(p)) = p

\* The path a system call on p operates on: a symbolic link at p is
\* followed.
Follow(f, p) == IF Node(f, p).k = "link" THEN Node(f, p).t ELSE p

\* Path::exists and Path::is_dir.
exists(f, p) == Node(f, Follow(f, p)).k # "none"
is_dir(f, p) == Node(f, Follow(f, p)).k = "dir"

\* Names of the entries of directory p.
Children(f, p) == {q[Len(q)] : q \in {r \in DOMAIN f : Len(r) = Len(p) + 1 /\ Parent(r) = p}}

\* Path::extension: the part of the file name after its last dot, None
\* when there is no dot or the only dot starts the name.
extension(p) ==
    LET name == p[Len(p)]
        dots == {i \in 1..Len(name) : name[i] = "."}
        last == CHOOSE i \in dots : \A j \in dots : j <= i
    IN  IF Len(p) = 0 \/ dots = {} THEN None
        ELSE IF last = 1 THEN None
        ELSE Some(SubSeq(name, last + 1, Len(name)))

\* OsStr::to_str: None unless the bytes are valid UTF-8.
to_str(s) == IF \E i \in 1..Len(s) : s[i] = BadByte THEN None ELSE Some(s)

\* The letter c in lower case.
Lower(c) == IF c = "W" THEN "w" ELSE IF c = "A" THEN "a" ELSE IF c = "V" THEN "v" ELSE c

\* Variant: the extension is compared without regard to case.
NotWavExtensionAnyCase(p) ==
    LET ext == extension(p)
        str == IF ext.some THEN to_str(ext.v) ELSE None
    IN  ~(str.some /\ [i \in 1..Len(str.v) |-> Lower(str.v[i])] = <<"w", "a", "v">>)

\* path.extension().and_then(|ext| ext.to_str()) != Some("wav")
NotWavExtension(p) ==
    LET ext == extension(p)
        str == IF ext.some THEN to_str(ext.v) ELSE None
    IN  str # Some(<<"w", "a", "v">>)

\* mkdir(2) on p.
Mkdir(f, p) ==
    IF Len(p) > MaxDepth THEN "err"
    ELSE IF Node(f, Parent(p)).k = "none" THEN "notfound"
    ELSE IF Node(f, Parent(p)).k # "dir" THEN "err"
    ELSE IF Node(f, p).k # "none" THEN "err"
    ELSE IF Node(f, Parent(p)).mode # "rw" THEN "err"
    ELSE "ok"

\* fs::create_dir_all: the result and the file system it leaves.
RECURSIVE create_dir_all(_, _)
create_dir_all(f, p) ==
    IF p = <<>> THEN [ok |-> TRUE, fs |-> f]
    ELSE LET first == Mkdir(f, p)
         IN  IF first = "ok" THEN [ok |-> TRUE, fs |-> (p :> Dir("rw")) @@ f]
             ELSE IF first = "err" THEN [ok |-> is_dir(f, p), fs |-> f]
             ELSE LET up == create_dir_all(f, Parent(p))
                  IN  IF ~up.ok THEN up
                      ELSE IF Mkdir(up.fs, p) = "ok"
                           THEN [ok |-> TRUE, fs |-> (p :> Dir("rw")) @@ up.fs]
                           ELSE [ok |-> is_dir(up.fs, p), fs |-> up.fs]

\* File::open for reading.
CanRead(f, p) ==
    /\ Len(p) <= MaxDepth
    /\ Node(f, Follow(f, p)).k = "file"
    /\ Node(f, Follow(f, p)).mode # "--"

\* Variant: the destination is opened with create_new, so that an
\* existing destination is an error.
copy_create_new(f, from, to) ==
    LET s == Node(f, Follow(f, from))
    IN  IF ~CanRead(f, from) \/ Len(to) > MaxDepth \/ Node(f, to).k # "none"
           \/ Node(f, Parent(to)).k # "dir" \/ Node(f, Parent(to)).mode # "rw"
        THEN [ok |-> FALSE, fs |-> f]
        ELSE [ok |-> TRUE, fs |-> (to :> File(s.c, s.mode)) @@ f]

\* fs::copy: opens from, opens to with write + create + truncate, copies
\* the bytes it then reads from the source, and gives the destination the
\* permission bits of the source.
copy(f, from, to) ==
    LET src == Follow(f, from)
        dst == Follow(f, to)
        s   == Node(f, src)
        d   == Node(f, dst)
        dir == Node(f, Parent(dst))
        canWrite == /\ Len(to) <= MaxDepth
                    /\ dir.k = "dir"
                    /\ IF d.k = "none" THEN dir.mode = "rw"
                       ELSE d.k = "file" /\ d.mode = "rw"
        opened == (dst :> File(Empty, s.mode)) @@ f
        bytes == opened[src].c
    IN  IF ~CanRead(f, from) \/ ~canWrite THEN [ok |-> FALSE, fs |-> f]
        ELSE [ok |-> TRUE, fs |-> (dst :> File(bytes, s.mode)) @@ f]

\* Durations of the containers of the model, computed once.
DurationTable == [c \in WavContents |-> duration_ms(c.samples, c.rate)]

\* get_duration_ms: an error unless the file opens and its header parses.
get_duration_ms(f, path) ==
    LET c == Node(f, Follow(f, path)).c
    IN  IF ~CanRead(f, path) THEN [ok |-> FALSE, op |-> "open"]
        ELSE IF ~c.hdr THEN [ok |-> FALSE, op |-> "open"]
        ELSE [ok |-> TRUE, ms |-> DurationTable[c]]

\* Path::strip_prefix and Path::join.
strip_prefix(p, base) ==
    IF IsPrefix(base, p) THEN Some(SubSeq(p, Len(base) + 1, Len(p))) ELSE None
join(base, rel) == base \o rel

(***************************************************************************)
(* Part 3.  The run of main.                                               *)
(***************************************************************************)
VARIABLES
    args,          \* Args: input, output, min_length, max_length
    fs,            \* the file system
    pc,            \* position of main
    copied_count,  \* main's copied_count
    walker,        \* WalkDir's iterator: start flag and stack of open directories
    entry,         \* path of the entry the loop body is working on
    out_path,      \* main's out_path
    log,           \* what the run has done so far, in order
    run,           \* 1 for the first invocation, 2 for the second
    first          \* fs0: the file system before the first run; after it:
                   \* the file system and the reported count it left

vars == <<args, fs, pc, copied_count, walker, entry, out_path, log, run, first>>

Terminal == {"done", "failed"}

PathIn == <<NameIn>>
PathOut == <<NameOut>>

\* The function with the given set of <<path, node>> pairs as its graph.
Tree(pairs) ==
    [p \in {e[1] : e \in pairs} |-> (CHOOSE e \in pairs : e[1] = p)[2]]

\* Input trees: what lies at in/a.wav, one more entry of in, and in/d.
OptWav ==
    { {},
      {<<PathIn \o <<NameWav>>, File(C500, "rw")>>},
      {<<PathIn \o <<NameWav>>, File(C500, "r-")>>},
      {<<PathIn \o <<NameWav>>, File(C1000, "rw")>>},
      {<<PathIn \o <<NameWav>>, File(Garbage, "rw")>>},
      {<<PathIn \o <<NameWav>>, File(C500, "--")>>} }

OptOther ==
    { {},
      {<<PathIn \o <<NameUpper>>, File(C500, "rw")>>},
      {<<PathIn \o <<NameHidden>>, File(Garbage, "rw")>>},
      {<<PathIn \o <<NameNoExt>>, File(C500, "rw")>>},
      {<<PathIn \o <<NameBadUtf>>, File(Garbage, "rw")>>},
      {<<PathIn \o <<NameLink>>, Link(PathIn \o <<NameWav>>)>>} }

OptSub ==
    { {},
      {<<PathIn \o <<NameSub>>, Dir("--")>>},
      {<<PathIn \o <<NameSub>>, Link(PathIn)>>},
      {<<PathIn \o <<NameSub>>, Dir("rw")>>,
       <<PathIn \o <<NameSub, NameWav>>, File(C0, "rw")>>},
      {<<PathIn \o <<NameSub>>, Dir("rw")>>,
       <<PathIn \o <<NameSub, NameWav>>, File(C1000, "rw")>>} }

InputTrees ==
    {{<<PathIn, Dir("rw")>>} \cup a \cup b \cup c :
        a \in OptWav, b \in OptOther, c \in OptSub}

\* The input trees that are combined with every output root and every
\* pair of lengths.
CoreTrees ==
    {t \in InputTrees :
        /\ \A e \in t : e[1][Len(e[1])] \in {NameIn, NameWav, NameUpper, NameSub}
        /\ \A e \in t : e[1] = PathIn \o <<NameSub>> =>
                           e[2] = Dir("rw") /\ <<e[1] \o <<NameWav>>, File(C1000, "rw")>> \in t}

\* The input trees that are combined with an output root inside the
\* input root.
FlatTrees == {t \in CoreTrees : \A e \in t : e[1] = PathIn \/ e[2].k = "file"}

\* Output roots and what exists there before the run.
OutputOpts ==
    { [output |-> PathOut, pre |-> {}],
      [output |-> PathOut,
       pre |-> {<<PathOut, Dir("rw")>>,
                <<PathOut \o <<NameWav>>, File(C0, "r-")>>}],
      [output |-> PathOut,
       pre |-> {<<PathOut, Dir("rw")>>,
                <<PathOut \o <<NameWav>>, Dir("rw")>>,
                <<PathOut \o <<NameSub>>, File(Empty, "rw")>>}],
      [output |-> PathOut, pre |-> {<<PathOut, File(Empty, "rw")>>}],
      [output |-> PathOut \o <<NameSub>>, pre |-> {}],
      [output |-> PathIn, pre |-> {}] }

\* <<min_length, max_length>>
LengthOpts == {<<0, 1000>>, <<500, 500>>, <<501, 1000>>, <<0, 499>>, <<501, 500>>}

Start(input, output, lengths, tree) ==
    /\ args = [input |-> input, output |-> output,
               min_length |-> lengths[1], max_length |-> lengths[2]]
    /\ fs = tree
    /\ pc = "start"
    /\ copied_count = 0
    /\ walker = [start |-> TRUE, stack |-> <<>>]
    /\ entry = <<>>
    /\ out_path = <<>>
    /\ log = <<>>
    /\ run = 1
    /\ first = [fs0 |-> tree]

Init ==
    \/ \E t \in InputTrees :
          Start(PathIn, PathOut, <<0, 1000>>, Tree(t))
    \/ \E t \in CoreTrees, o \in OutputOpts :
          Start(PathIn, o.output, <<0, 1000>>, Tree(t \cup o.pre))
    \/ \E t \in FlatTrees :
          Start(PathIn, PathIn \o <<NameOut>>, <<0, 1000>>, Tree(t))
    \/ \E t \in CoreTrees, l \in LengthOpts :
          Start(PathIn, PathOut, l, Tree(t))
    \/ \E t \in {{}, {<<PathIn, File(C500, "rw")>>}} :
          Start(PathIn, PathOut, <<0, 1000>>, Tree(t))

Fail(op, path) ==
    /\ pc' = "failed"
    /\ log' = Append(log, [ev |-> "error", op |-> op, path |-> path])

\* main, lines 46-51: the input path must exist and be a directory.
ValidateInput ==
    /\ pc = "start"
    /\ IF ~exists(fs, args.input) THEN Fail("input-missing", args.input)
       ELSE IF ~is_dir(fs, args.input) THEN Fail("input-not-dir", args.input)
       ELSE pc' = "mkout" /\ log' = log
    /\ UNCHANGED <<args, fs, copied_count, walker, entry, out_path, run, first>>

\* Variant: the output root is not created before the walk.
CreateOutputLazy ==
    /\ pc = "mkout"
    /\ pc' = "walk"
    /\ copied_count' = 0
    /\ walker' = [start |-> TRUE, stack |-> <<>>]
    /\ UNCHANGED <<args, fs, entry, out_path, log, run, first>>

\* main, lines 53-61: create the output root, then copied_count = 0 and
\* the walk is set up.
CreateOutput ==
    /\ pc = "mkout"
    /\ LET r == create_dir_all(fs, args.output)
       IN  /\ fs' = r.fs
           /\ IF r.ok THEN pc' = "walk" /\ log' = log
              ELSE Fail("create-output", args.output)
    /\ copied_count' = 0
    /\ walker' = [start |-> TRUE, stack |-> <<>>]
    /\ UNCHANGED <<args, entry, out_path, run, first>>

\* fs::read_dir as called by WalkDir's push: the open directory with the
\* names it holds now, or the error to yield.
DirList(f, dir) ==
    IF Node(f, Follow(f, dir)).mode = "--" \/ Len(dir) > MaxDepth
    THEN [dir |-> dir, err |-> TRUE, todo |-> {}, done |-> {}]
    ELSE [dir |-> dir, err |-> FALSE, todo |-> Children(f, Follow(f, dir)), done |-> {}]

\* Variant: a symbolic link to a directory is descended into.
is_dir_following_links(f, p) == is_dir(f, p)

\* WalkDir with follow_links(false): a directory is descended into only
\* if the entry itself is a directory, not a symbolic link to one.
is_normal_dir(f, p) == Node(f, p).k = "dir"

\* handle_entry: the stack after entry p has been read.
HandleEntry(f, stack, p) ==
    IF is_normal_dir(f, p) THEN Append(stack, DirList(f, p)) ELSE stack

Yield(p, stack) ==
    /\ walker' = [start |-> FALSE, stack |-> HandleEntry(fs, stack, p)]
    /\ entry' = p
    /\ pc' = "entry"
    /\ log' = Append(log, [ev |-> "yield", path |-> p])

\* IntoIter::next yielding an entry or an error (main, lines 64-65): the
\* root first, then the entries of the directory on top of the stack in
\* any order.  Whether readdir returns a name added to a directory after
\* it was opened is unspecified.
WalkNext ==
    /\ pc = "walk"
    /\ IF walker.start THEN Yield(args.input, walker.stack)
       ELSE /\ walker.stack # <<>>
            /\ LET n   == Len(walker.stack)
                   top == walker.stack[n]
               IN  IF top.err
                   THEN /\ Fail("read-dir", top.dir)
                        /\ walker' = [walker EXCEPT !.stack[n].err = FALSE]
                        /\ UNCHANGED entry
                   ELSE \E name \in top.todo \cup (Children(fs, top.dir) \ top.done) :
                          Yield(top.dir \o <<name>>,
                                [walker.stack EXCEPT
                                   ![n].todo = top.todo \ {name},
                                   ![n].done = top.done \cup {name}])
    /\ UNCHANGED <<args, fs, copied_count, out_path, run, first>>

\* IntoIter::next leaving a directory whose entries have all been read.
WalkPop ==
    /\ pc = "walk"
    /\ ~walker.start
    /\ walker.stack # <<>>
    /\ LET top == walker.stack[Len(walker.stack)]
       IN  ~top.err /\ top.todo = {}
    /\ walker' = [walker EXCEPT !.stack = SubSeq(walker.stack, 1, Len(walker.stack) - 1)]
    /\ UNCHANGED <<args, fs, pc, copied_count, entry, out_path, log, run, first>>

\* main, lines 64 and 105-110: the walk is exhausted, the summary is
\* printed and main returns Ok.
Finish ==
    /\ pc = "walk"
    /\ ~walker.start
    /\ walker.stack = <<>>
    /\ pc' = "done"
    /\ log' = Append(log, [ev |-> "summary", n |-> copied_count])
    /\ UNCHANGED <<args, fs, copied_count, walker, entry, out_path, run, first>>

\* entry.file_type().is_file(): the type of the entry itself.
is_file(f, p) == Node(f, p).k = "file"

\* main, lines 66-73: entries that are not regular files or do not have
\* the extension wav are skipped.
CheckEntry ==
    /\ pc = "entry"
    /\ pc' = IF ~is_file(fs, entry) THEN "walk"
             ELSE IF NotWavExtension(entry) THEN "walk"
             ELSE "duration"
    /\ UNCHANGED <<args, fs, copied_count, walker, entry, out_path, log, run, first>>

\* Variant: both bounds exclusive.
InRangeExclusive(duration) == duration > args.min_length /\ duration < args.max_length

\* duration >= args.min_length && duration <= args.max_length
InRange(duration) == duration >= args.min_length /\ duration <= args.max_length

\* Variant: a file whose duration cannot be computed is reported and
\* skipped.
GetDurationSkip ==
    /\ pc = "duration"
    /\ LET d == get_duration_ms(fs, entry)
           opened == Append(log, [ev |-> "open", path |-> entry])
       IN  IF ~d.ok
           THEN /\ pc' = "walk"
                /\ log' = Append(opened, [ev |-> "error", op |-> d.op, path |-> entry])
           ELSE /\ pc' = IF InRange(d.ms) THEN "mkparent" ELSE "walk"
                /\ log' = Append(opened, [ev |-> "dur", path |-> entry, ms |-> d.ms,
                                          n |-> Node(fs, entry),
                                          c |-> Node(fs, entry).c])
    /\ UNCHANGED <<args, fs, copied_count, walker, entry, out_path, run, first>>

\* main, lines 75-76: the duration and the filter.
GetDuration ==
    /\ pc = "duration"
    /\ LET d == get_duration_ms(fs, entry)
           opened == Append(log, [ev |-> "open", path |-> entry])
       IN  IF ~d.ok
           THEN /\ pc' = "failed"
                /\ log' = Append(opened, [ev |-> "error", op |-> d.op, path |-> entry])
           ELSE /\ pc' = IF InRange(d.ms) THEN "mkparent" ELSE "walk"
                /\ log' = Append(opened, [ev |-> "dur", path |-> entry, ms |-> d.ms,
                                          n |-> Node(fs, entry),
                                          c |-> Node(fs, entry).c])
    /\ UNCHANGED <<args, fs, copied_count, walker, entry, out_path, run, first>>

\* Variant: the file name alone is joined onto the output root.
OutPathFlat(path) ==
    IF IsPrefix(args.input, path) /\ Len(path) > Len(args.input)
    THEN Some(join(args.output, <<path[Len(path)]>>))
    ELSE None

\* args.output.join(path.strip_prefix(&args.input))
OutPath(path) ==
    LET rel_path == strip_prefix(path, args.input)
    IN  IF rel_path.some THEN Some(join(args.output, rel_path.v)) ELSE None

\* main, lines 78-91: the destination path and its parent directories.
MakeParent ==
    /\ pc = "mkparent"
    /\ LET o == OutPath(entry)
           r == create_dir_all(fs, Parent(o.v))
       IN  IF ~o.some
           THEN Fail("strip-prefix", entry) /\ UNCHANGED <<fs, out_path>>
           ELSE /\ out_path' = o.v
                /\ fs' = r.fs
                /\ IF r.ok THEN pc' = "copy" /\ log' = log
                   ELSE Fail("create-parent", o.v)
    /\ UNCHANGED <<args, copied_count, walker, entry, run, first>>

\* Variant: copied_count is incremented before the copy is known to
\* have succeeded.
CopyFileCountFirst ==
    /\ pc = "copy"
    /\ LET r == copy(fs, entry, out_path)
       IN  /\ fs' = r.fs
           /\ copied_count' = copied_count + 1
           /\ IF r.ok
              THEN /\ pc' = "walk"
                   /\ log' = Append(log, [ev |-> "copy", src |-> entry, dst |-> out_path,
                                          c |-> Node(fs, entry).c])
              ELSE Fail("copy", out_path)
    /\ UNCHANGED <<args, walker, entry, out_path, run, first>>

\* main, lines 94-101: the copy and copied_count += 1.
CopyFile ==
    /\ pc = "copy"
    /\ LET r == copy(fs, entry, out_path)
       IN  /\ fs' = r.fs
           /\ IF r.ok
              THEN /\ copied_count' = copied_count + 1
                   /\ pc' = "walk"
                   /\ log' = Append(log, [ev |-> "copy", src |-> entry, dst |-> out_path,
                                          c |-> Node(fs, entry).c])
              ELSE /\ Fail("copy", out_path)
                   /\ UNCHANGED copied_count
    /\ UNCHANGED <<args, walker, entry, out_path, run, first>>

\* The program is run a second time with the same arguments after a
\* first run that succeeded.
Rerun ==
    /\ pc = "done"
    /\ run = 1
    /\ run' = 2
    /\ first' = [fs0 |-> first.fs0, fs |-> fs, count |-> copied_count, log |-> log]
    /\ pc' = "start"
    /\ copied_count' = 0
    /\ walker' = [start |-> TRUE, stack |-> <<>>]
    /\ entry' = <<>>
    /\ out_path' = <<>>
    /\ log' = <<>>
    /\ UNCHANGED <<args, fs>>

Step ==
    \/ ValidateInput
    \/ CreateOutput
    \/ WalkNext
    \/ WalkPop
    \/ Finish
    \/ CheckEntry
    \/ GetDuration
    \/ MakeParent
    \/ CopyFile

Next == Step \/ Rerun

Spec == Init /\ [][Next]_vars

\* main runs to its end: it is a sequential program that is never blocked.
FairSpec == Spec /\ WF_vars(Step)

(***************************************************************************)
(* Part 4.  Properties.                                                    *)
(***************************************************************************)
Events(kind) == {i \in 1..Len(log) : log[i].ev = kind}
Errors(ops) == {i \in Events("error") : log[i].op \in ops}
CopiedFrom(path) == \E j \in Events("copy") : log[j].src = path

\* The file whose copy has been decided on but not yet made.
InProgress(i) ==
    /\ pc \in {"mkparent", "copy"}
    /\ \A j \in Events("dur") : j <= i

\* The run was aborted while file path was being copied.
AbortedAt(path) ==
    /\ pc = "failed"
    /\ Len(log) > 0
    /\ log[Len(log)].ev = "error"
    /\ log[Len(log)].op \in {"strip-prefix", "create-parent", "copy"}
    /\ \E i \in Events("dur") :
          log[i].path = path /\ \A j \in Events("dur") : j <= i

\* The name of path ends in ".wav" and has something before the dot.
HasWavExt(path) ==
    /\ Len(path) > 0
    /\ LET name == path[Len(path)]
       IN  /\ Len(name) >= 5
           /\ SubSeq(name, Len(name) - 3, Len(name)) = <<".", "w", "a", "v">>

\* The part of file system f at or below path root.
Subtree(f, root) == [p \in {q \in DOMAIN f : IsPrefix(root, q)} |-> f[p]]

\* The file system the current run started from.
RunStartFs == IF run = 1 THEN first.fs0 ELSE first.fs

\* C1 (as claimed): once the loop is done with a *.wav file whose
\* duration d was computed, the file has been copied iff
\* min_length <= d <= max_length; with min_length > max_length nothing
\* is ever copied.
C1_CopiedIffInRange ==
    /\ \A i \in Events("dur") :
          ~InProgress(i) =>
             (CopiedFrom(log[i].path) <=>
                (args.min_length <= log[i].ms /\ log[i].ms <= args.max_length))
    /\ args.min_length > args.max_length => Events("copy") = {}

\* C1 (amended): a copied file has min_length <= d <= max_length (both
\* inclusive), and a file with d in that range that the loop is done with
\* has been copied unless the run was aborted by an error while creating
\* its destination directories or copying it; with
\* min_length > max_length nothing is ever copied.
C1_CopiedIffInRangeUnlessAborted ==
    /\ \A i \in Events("dur") :
          LET inRange == args.min_length <= log[i].ms /\ log[i].ms <= args.max_length
          IN  /\ CopiedFrom(log[i].path) => inRange
              /\ (inRange /\ ~InProgress(i) /\ ~CopiedFrom(log[i].path))
                    => AbortedAt(log[i].path)
    /\ args.min_length > args.max_length => Events("copy") = {}

\* A finished run that copied a file whose duration is both min_length
\* and max_length.
C1_Witness ==
    /\ pc = "done"
    /\ \E i \in Events("dur") :
          /\ log[i].ms = args.min_length
          /\ log[i].ms = args.max_length
          /\ CopiedFrom(log[i].path)

\* C2: every copy goes from <input>/<rel> of a file that passed the
\* filter to exactly <output>/<rel>, whose parent directories exist
\* before the copy; no other file is written, and two sources never
\* share a destination.
C2_PathPreservation ==
    /\ \A j \in Events("copy") :
          LET e == log[j]
          IN  /\ IsPrefix(args.input, e.src)
              /\ e.dst = args.output \o SubSeq(e.src, Len(args.input) + 1, Len(e.src))
              /\ \E i \in Events("dur") :
                    /\ i < j
                    /\ log[i].path = e.src
                    /\ args.min_length <= log[i].ms
                    /\ log[i].ms <= args.max_length
              /\ \A n \in 1..(Len(e.dst) - 1) : Node(fs, SubSeq(e.dst, 1, n)).k = "dir"
              /\ Node(fs, e.dst).k = "file"
              /\ e.dst # e.src => Node(fs, e.dst).c = e.c
              /\ \A k \in Events("copy") : log[k].dst = e.dst => k = j
    /\ pc = "copy" =>
          \A n \in 1..(Len(out_path) - 1) : Node(fs, SubSeq(out_path, 1, n)).k = "dir"
    /\ \A p \in DOMAIN fs :
          (fs[p].k = "file" /\ Node(RunStartFs, p) # fs[p])
             => \E j \in Events("copy") : log[j].dst = p

\* A finished run that copied in/d/a.wav to out/d/a.wav, creating out/d.
C2_Witness ==
    /\ pc = "done"
    /\ \E j \in Events("copy") :
          /\ Len(log[j].src) = 3
          /\ log[j].dst = PathOut \o <<NameSub, NameWav>>
          /\ Node(RunStartFs, PathOut \o <<NameSub>>).k = "none"

\* C3: a walked file whose extension is not exactly "wav" is never given
\* to get_duration_ms, never copied or counted, and no error is about it.
C3_ExtensionFiltering ==
    /\ \A i \in Events("open") \cup Events("dur") : HasWavExt(log[i].path)
    /\ \A i \in Events("copy") : HasWavExt(log[i].src)
    /\ \A i \in Errors({"open", "strip-prefix", "create-parent", "copy"}) :
          HasWavExt(log[i].path)
    /\ pc \in {"duration", "mkparent", "copy"} =>
          HasWavExt(entry) /\ Node(fs, entry).k = "file"
    /\ copied_count <= Cardinality({i \in Events("yield") : HasWavExt(log[i].path)})

\* A finished run that walked a regular file without the extension wav.
C3_Witness ==
    /\ pc = "done"
    /\ \E i \in Events("yield") :
          /\ Node(fs, log[i].path).k = "file"
          /\ ~HasWavExt(log[i].path)
          /\ \A j \in Events("open") : log[j].path # log[i].path

\* C4: for a container with sample rate R > 0 and S samples,
\* get_duration_ms returns exactly floor(S * 1000 / R).
C4_DurationIsFloor ==
    \A i \in Events("dur") :
        log[i].ms = (log[i].c.samples * 1000) \div log[i].c.rate

\* C5: a file that cannot be opened or parsed gives an error, never a
\* duration; any error is the last thing the run does: the run has
\* failed, nothing is printed, the failing file is not copied, and no
\* further entry is read, opened, copied or counted.
C5_ErrorState ==
    /\ \A i \in Events("error") :
          /\ i = Len(log)
          /\ pc = "failed"
          /\ Events("summary") = {}
          /\ log[i].op = "open" => ~CopiedFrom(log[i].path)
    /\ pc = "failed" => Len(log) > 0 /\ log[Len(log)].ev = "error"
    /\ \A i \in Events("open") :
          i < Len(log) =>
             /\ log[i + 1].ev \in {"dur", "error"}
             /\ log[i + 1].path = log[i].path
    /\ \A i \in Events("dur") : log[i].n.k = "file" /\ log[i].n.mode # "--" /\ log[i].c.hdr

\* C5: every reachable state is such an error state or has seen no error,
\* and a failed run takes no further step: no error is skipped or retried.
C5_FatalOnFirstError ==
    /\ []C5_ErrorState
    /\ [][pc = "failed" => UNCHANGED vars]_vars

\* A run aborted by a file that does not parse while an entry of the
\* input tree has not been read yet.
C5_Witness ==
    /\ pc = "failed"
    /\ log[Len(log)].op = "open"
    /\ ~Node(fs, log[Len(log)].path).c.hdr
    /\ \E p \in DOMAIN fs :
          /\ IsPrefix(args.input, p)
          /\ \A i \in Events("yield") : log[i].path # p

\* C6: whatever the output root, the files and directories under the
\* input root and their contents are at all times what they were before
\* the run.
C6_InputTreeReadOnly ==
    Subtree(fs, args.input) = Subtree(first.fs0, args.input)

\* C7: no symbolic link is followed, no entry is yielded twice, and the
\* run always reaches the summary or a fatal error.
C7_NoLinkFollowed ==
    /\ \A i \in Events("yield") :
          /\ \A n \in 1..(Len(log[i].path) - 1) :
                Node(fs, SubSeq(log[i].path, 1, n)).k # "link"
          /\ \A j \in Events("yield") : log[j].path = log[i].path => j = i
    /\ \A i \in Events("open") : Node(fs, log[i].path).k # "link"
    /\ \A i \in Events("copy") : Node(fs, log[i].src).k # "link"

\* C7: on every input tree, with or without symbolic links and cycles of
\* them, the walk never follows a link and yields no entry twice, and
\* the run reaches the summary or a fatal error.
C7_Termination ==
    /\ []C7_NoLinkFollowed
    /\ []<>(pc \in Terminal)

\* A finished run whose walk came upon a symbolic link to a directory
\* above it and upon a symbolic link to a *.wav file.
C7_Witness ==
    /\ pc \in Terminal
    /\ \E i \in Events("yield") :
          /\ Node(fs, log[i].path).k = "link"
          /\ IsPrefix(Node(fs, log[i].path).t, log[i].path)
    /\ \E i \in Events("yield") :
          /\ Node(fs, log[i].path).k = "link"
          /\ HasWavExt(log[i].path)
          /\ Node(fs, Node(fs, log[i].path).t).k = "file"

\* The input root is a directory none of whose regular files is a *.wav
\* file with a duration in [min_length, max_length].
NoMatchingFiles(f) ==
    /\ Node(f, args.input).k = "dir"
    /\ \A p \in DOMAIN f :
          (IsPrefix(args.input, p) /\ f[p].k = "file" /\ HasWavExt(p)) =>
             /\ f[p].c.hdr
             /\ ~(args.min_length <= DurationTable[f[p].c]
                  /\ DurationTable[f[p].c] <= args.max_length)

EmptyResult ==
    /\ pc = "done"
    /\ copied_count = 0
    /\ log[Len(log)] = [ev |-> "summary", n |-> 0]
    /\ Events("copy") = {}
    /\ Node(fs, args.output).k = "dir"

\* C8 (as claimed): a run on an input directory without matching files
\* ends successfully, reports 0, copies nothing and leaves the output
\* root in existence.
C8_EmptyResult ==
    (pc \in Terminal /\ NoMatchingFiles(RunStartFs)) => EmptyResult

\* Nothing stands in the way of the run: the output root can be created,
\* every directory under the input root can be read and every *.wav file
\* opened.
NoIoError(f) ==
    /\ create_dir_all(f, args.output).ok
    /\ \A p \in DOMAIN f :
          IsPrefix(args.input, p) =>
             /\ f[p].k = "dir" => f[p].mode = "rw"
             /\ (f[p].k = "file" /\ HasWavExt(p)) => f[p].mode # "--"

\* C8 (amended): the same, provided no I/O error occurs: the output root
\* can be created, every directory can be read and every *.wav file
\* opened.
C8_EmptyResultWithoutIoError ==
    (pc \in Terminal /\ NoMatchingFiles(RunStartFs) /\ NoIoError(RunStartFs))
       => EmptyResult

\* A finished first run on a tree with a *.wav file of a duration outside
\* the range and nothing to copy.
C8_Witness ==
    /\ pc = "done"
    /\ run = 1
    /\ NoMatchingFiles(RunStartFs)
    /\ NoIoError(RunStartFs)
    /\ Events("dur") # {}
    /\ Node(RunStartFs, args.output).k = "none"

CopyPairs(l) == {<<l[i].src, l[i].dst>> : i \in {j \in 1..Len(l) : l[j].ev = "copy"}}

SameAsFirstRun ==
    /\ pc # "failed"
    /\ pc = "done" =>
          /\ copied_count = first.count
          /\ log[Len(log)] = [ev |-> "summary", n |-> first.count]
          /\ fs = first.fs
          /\ CopyPairs(log) = CopyPairs(first.log)

\* The first run left the input tree as it was.
InputUnchanged == Subtree(first.fs, args.input) = Subtree(first.fs0, args.input)

\* C9 (as claimed): a second run with the same arguments on the same
\* input tree does not fail, reports the count of the first run and
\* leaves the file system as the first run left it.
C9_Idempotent ==
    (run = 2 /\ InputUnchanged) => SameAsFirstRun

\* C9 (amended): the same, provided every destination file the first run
\* wrote is writable, which it is not when its source file is read-only.
C9_IdempotentIfWritable ==
    (/\ run = 2
     /\ InputUnchanged
     /\ \A e \in CopyPairs(first.log) : first.fs[e[2]].mode = "rw")
       => SameAsFirstRun

\* A finished second run that overwrote a file the first run had copied.
C9_Witness ==
    /\ run = 2
    /\ pc = "done"
    /\ InputUnchanged
    /\ copied_count >= 1
    /\ \A e \in CopyPairs(first.log) : first.fs[e[2]].mode = "rw"

\* C10: copied_count is the number of copies completed so far; the
\* summary is printed at most once, after the walk is exhausted, and
\* reports the number of files copied.
C10_CounterState ==
    /\ copied_count = Cardinality(Events("copy"))
    /\ pc \in {"start", "mkout"} => copied_count = 0
    /\ Cardinality(Events("summary")) <= 1
    /\ \A i \in Events("summary") :
          /\ i = Len(log)
          /\ pc = "done"
          /\ walker.stack = <<>> /\ ~walker.start
          /\ log[i].n = Cardinality(Events("copy"))
    /\ pc = "done" => Events("summary") # {}

\* C10: the counter state holds throughout, and copied_count changes
\* only by the increment that comes with a successful copy (or when the
\* program is started again).
C10_CopyCounter ==
    /\ []C10_CounterState
    /\ [][copied_count' # copied_count =>
             \/ /\ pc = "copy"
                /\ copied_count' = copied_count + 1
                /\ Len(log') = Len(log) + 1
                /\ log'[Len(log')].ev = "copy"
             \/ pc = "done" /\ run' = 2 /\ copied_count' = 0]_vars

\* A finished run that copied two files and skipped an entry.
C10_Witness ==
    /\ pc = "done"
    /\ copied_count = 2
    /\ Cardinality(Events("yield")) > 3

====
